---- MODULE Spec2Model ----
(***************************************************************************)
(* Model of the proctored-interview backend (backend/main.py).  The        *)
(* database rows (samples, interviews, questions, answers) are the state;  *)
(* every HTTP handler is an action.  A handler that awaits an external     *)
(* service between reading the session row and writing it is split at the  *)
(* await into a begin step and a finish step; the values its SQLAlchemy    *)
(* session loaded before the await are kept in the request record.         *)
(***************************************************************************)
EXTENDS Integers, Sequences, FiniteSets, Bags, TLC

\* ---------------------------------------------------------------- bounds
MaxQuestions == 1       \* Question rows created per interview
MaxRequests == 2        \* handlers suspended at an await at the same time
MaxAlertCount == 6      \* no violation is counted past this alert_count

\* ------------------------------------------------------ program constants
AlertCeiling == 5       \* "if interview.alert_count >= 5"
TotalQuestions == 10    \* "answered_count >= 10"

Users == {"u1", "u2"}
\* The users who upload samples.  The other user is there to call the handlers
\* on an interview that is not theirs: those calls end at the ownership check,
\* and the interview that user could start would be another row.
Candidates == {"u1"}
\* The model follows one interview: a handler reads and writes only the rows
\* of the interview id in its path.
InterviewIds == {1}
QuestionIds == 1..MaxQuestions

None == "none"          \* Python None / SQL NULL

\* the poll's audio part: no clip uploaded, or the verdict of verify_audio
AudioInputs == {"no_clip", "match", "mismatch"}

VARIABLES
    samples,      \* users that have a Sample row
    interviews,   \* Interview rows: id -> row, for the ids created so far
    questions,    \* number of Question rows per interview id
    answers,      \* Answer rows: interview id -> (question id -> number of rows)
    req,          \* handlers suspended at an await: a bag of request records
    monitor,      \* which of the history below this run records
    resp,         \* history: the last HTTP response, with the request it answers
    polls         \* history: the verification polls processed so far

vars == <<samples, interviews, questions, answers, req, monitor, resp, polls>>

\* ------------------------------------------------------------- helpers
\* A suspended handler: which one, for which interview, and what its session
\* loaded before the await.
Request(pc, i) == [pc |-> pc, iid |-> i, status |-> None, alert_count |-> 0,
                   question_id |-> 0, answered_count |-> 0]

\* The records a suspended handler of each kind can be.
Statuses == {"pending", "in_progress", "completed", "terminated"}
VerifyRequests ==
    {[Request("verify_user", i) EXCEPT !.status = st, !.alert_count = c] :
        i \in InterviewIds, st \in Statuses, c \in 0..MaxAlertCount}
QuestionRequests ==
    {[Request("get_question", i) EXCEPT !.answered_count = n] :
        i \in InterviewIds, n \in 0..(TotalQuestions - 1)}
AnswerRequests ==
    {[Request("submit_answer", i) EXCEPT !.status = st, !.question_id = q] :
        i \in InterviewIds, st \in Statuses, q \in QuestionIds}

Suspended(rq) == BagIn(rq, req)
Suspend(rq) == req (+) SetToBag({rq})
Resume(rq) == req (-) SetToBag({rq})
CanSuspend == BagCardinality(req) < MaxRequests

NoRequest == [face_match |-> FALSE, face_reason |-> None, audio |-> None]

\* The row created with the status column left to its default (models.py:37).
NewInterviewPending(u) ==
    [user_id |-> u, status |-> "pending", alert_count |-> 0,
     consecutive_face_failures |-> 0, termination_reason |-> None]

\* models.Interview as created by start_interview
NewInterview(u) ==
    [user_id |-> u, status |-> "in_progress", alert_count |-> 0,
     consecutive_face_failures |-> 0, termination_reason |-> None]

\* The lookup without the filter on Interview.user_id.
OwnedByAnyUser(i, u) == i \in DOMAIN interviews

\* db.query(Interview).filter(Interview.id == i, Interview.user_id == u).first()
Owned(i, u) == i \in DOMAIN interviews /\ interviews[i].user_id = u

\* db.query(Answer).filter(Answer.interview_id == i).count()
RECURSIVE SumTo(_, _)
SumTo(f, n) == IF n = 0 THEN 0 ELSE f[n] + SumTo(f, n - 1)
AnswerCount(ans, i) == SumTo(ans[i], MaxQuestions)

\* The status column of interview i, None when there is no such row.
StatusOf(i) == IF i \in DOMAIN interviews THEN interviews[i].status ELSE None

\* A response: the handler, its caller, the interview status the handler
\* loaded, the verdicts of a poll, the HTTP status code and the JSON body.
Reply(op, u, status, rq, code, body) ==
    IF "resp" \in monitor
    THEN [op |-> op, user |-> u, status |-> status, request |-> rq,
          code |-> code, body |-> body]
    ELSE resp

NoRow == [user_id |-> None, status |-> None, alert_count |-> 0,
          consecutive_face_failures |-> 0, termination_reason |-> None]

\* The empty database, no request in flight.
InitDb ==
    /\ samples = {}
    /\ interviews = <<>>
    /\ questions = [i \in InterviewIds |-> 0]
    /\ answers = [i \in InterviewIds |-> [q \in QuestionIds |-> 0]]
    /\ req = EmptyBag
    /\ resp = [op |-> None, user |-> None, status |-> None, request |-> NoRequest,
               code |-> 0, body |-> [detail |-> None]]
    /\ polls = [streak |-> 0, last |-> NoRequest, raised |-> 0,
                base |-> NoRow, size |-> 0, done |-> <<>>, clean |-> TRUE,
                atomic |-> TRUE, seq |-> 0,
                first |-> [set |-> FALSE, before |-> NoRow, face_reason |-> None,
                           audio_match |-> TRUE, after |-> NoRow,
                           body |-> [detail |-> None]],
                agree |-> TRUE, burst |-> 0]

Init == InitDb /\ monitor = {}
InitResp == InitDb /\ monitor = {"resp"}
InitStreak == InitDb /\ monitor = {"streak"}
InitRetry == InitDb /\ monitor = {"retry"}
InitOverlap == InitDb /\ monitor = {"overlap"}
InitSeq == InitDb /\ monitor = {"seq"}
InitFirst == InitDb /\ monitor = {"first"}
InitBurst == InitDb /\ monitor = {"resp", "burst"}

\* ------------------------------------------------- history of the polls
\* polls.streak  how many of the polls processed most recently, in a row,
\*               raised a violation (counted up to the ceiling)
\* polls.last    the verdicts of the poll processed last
\* polls.raised  how many deliveries of that same poll increased the stored
\*               alert_count (a delivery marked retry is the same poll again)
\* polls.base, size, done, clean  the polls that overlap right now: the row
\*               when the first of them loaded it, how many began, the verdicts
\*               of those that finished, and whether only polls wrote the row
\* polls.atomic  FALSE when two overlapping polls just left the row in a state
\*               that neither serial order of the two produces
\* polls.first   the first poll processed: the row it found, its verdicts, the
\*               row it left and the body it returned
\* polls.agree   FALSE when the poll just processed found the row and carried
\*               the verdicts of polls.first and left another row or returned
\*               another body
\* polls.burst   how many polls, every one raising a violation, have been
\*               processed one after the other since the interview started,
\*               with no other handler writing the row; -1 once that ended
\* polls.seq     how many polls of Scenario, with audio matching, have been
\*               processed in its order, one after the other, since the
\*               interview started; -1 once the polls left the scenario
InFlightPolls ==
    LET Waiting == {rq \in BagToSet(req) : rq.pc = "verify_user"}
    IN  BagCardinality([rq \in Waiting |-> req[rq]])

Min(a, b) == IF a < b THEN a ELSE b

\* face verdicts of five polls in a row
Scenario == <<"different_face", "match", "different_face", "different_face",
              "different_face">>

PollBegun(i) ==
    IF "seq" \in monitor
    THEN [polls EXCEPT !.seq = IF InFlightPolls > 0 THEN -1 ELSE @]
    ELSE IF "burst" \in monitor
    THEN [polls EXCEPT !.burst = IF InFlightPolls > 0 THEN -1 ELSE @]
    ELSE IF "overlap" \notin monitor THEN polls
    ELSE IF InFlightPolls = 0
    THEN [polls EXCEPT !.base = interviews[i], !.size = 1, !.done = <<>>,
                       !.clean = TRUE]
    ELSE IF polls.size = 1
    THEN [polls EXCEPT !.size = 2]
    ELSE [polls EXCEPT !.size = 3, !.base = NoRow, !.done = <<>>, !.clean = FALSE]

\* A step of another handler that writes the interview row while polls overlap.
Disturbed ==
    IF "overlap" \in monitor /\ polls.size > 0 /\ interviews' # interviews
    THEN [polls EXCEPT !.clean = FALSE]
    ELSE IF "burst" \in monitor /\ interviews' # interviews
    THEN [polls EXCEPT !.burst = -1]
    ELSE polls

\* ------------------------------------------------------- upload_samples
\* The Sample row is stored only when process_sample returned a face id.
upload_samples(u) ==
    /\ \E face_id_found \in BOOLEAN :
        IF face_id_found
        THEN /\ samples' = samples \cup {u}
             /\ resp' = Reply("upload_samples", u, None, NoRequest, 200,
                              [message |-> "Samples uploaded successfully"])
        ELSE /\ samples' = samples
             /\ resp' = Reply("upload_samples", u, None, NoRequest, 500,
                              [detail |-> "Error processing samples"])
    /\ UNCHANGED <<interviews, questions, answers, req, monitor, polls>>

\* ------------------------------------------------------ start_interview
\* The handler without the check of lines 191-193.
start_interview_without_sample_check(u) ==
    /\ Len(interviews) + 1 \in InterviewIds
    /\ interviews' = Append(interviews, NewInterview(u))
    /\ resp' = Reply("start_interview", u, "in_progress", NoRequest, 200,
                     [interview_id |-> Len(interviews) + 1,
                      message |-> "Interview started"])
    /\ UNCHANGED <<samples, questions, answers, req, monitor, polls>>

start_interview(u) ==
    /\ IF u \notin samples
       THEN /\ resp' = Reply("start_interview", u, None, NoRequest, 400,
                             [detail |-> "Please upload video and audio samples first"])
            /\ UNCHANGED interviews
       ELSE /\ Len(interviews) + 1 \in InterviewIds
            /\ interviews' = Append(interviews, NewInterview(u))
            /\ resp' = Reply("start_interview", u, "in_progress", NoRequest, 200,
                             [interview_id |-> Len(interviews) + 1,
                              message |-> "Interview started"])
    /\ UNCHANGED <<samples, questions, answers, req, monitor, polls>>

\* --------------------------------------------------- terminate_interview
\* The row written with the tab switch counted as one more alert.
TerminatedRowCountsAlert(row) ==
    [row EXCEPT !.status = "terminated", !.termination_reason = "tab_switch",
                !.alert_count = @ + 1]

\* The row written without the check of line 331.
TerminatedRowOverwrites(row) ==
    [row EXCEPT !.status = "terminated", !.termination_reason = "tab_switch"]

\* Lines 330-337: the row is set to terminated / tab_switch unless it is
\* already terminated with a reason.
TerminatedRow(row) ==
    IF row.status # "terminated" \/ row.termination_reason = None
    THEN [row EXCEPT !.status = "terminated", !.termination_reason = "tab_switch"]
    ELSE row

terminate_interview(i, u) ==
    /\ IF ~Owned(i, u)
       THEN /\ resp' = Reply("terminate_interview", u, StatusOf(i), NoRequest, 404,
                             [detail |-> "Interview not found"])
            /\ UNCHANGED interviews
       ELSE /\ interviews' = [interviews EXCEPT ![i] = TerminatedRow(@)]
            /\ resp' = Reply("terminate_interview", u, StatusOf(i), NoRequest, 200,
                             [message |-> "Interview terminated", interview_id |-> i])
    /\ polls' = Disturbed
    /\ UNCHANGED <<samples, questions, answers, req, monitor>>

\* ----------------------------------------------------------- verify_face
FaceThreshold == 4      \* self.threshold = 0.4, in tenths

\* confidence and similarity values, in tenths
Tenths == {2, 3, 4}

\* What one call of verify_face meets: whether the Azure client is there and
\* has the Identification feature, what the stored face data is (a face id, a
\* JSON object of features, or text that starts with "{" and does not parse),
\* how the SDK's detect and verify calls end, how the REST detect call ends,
\* and the similarity of the features.
FacePaths ==
    [available : BOOLEAN, has_identification_feature : BOOLEAN,
     stored : {"face_id", "features", "unparsable"},
     sdk : {"no_face", "verified", "expired", "api_error"},
     is_identical : BOOLEAN, confidence : Tenths,
     rest : {"exception", "http_error", "no_face", "faces"},
     similarity : Tenths]

\* The verdict with the error let through as a match.
ErrorVerdictAsMatch == <<TRUE, "error">>

\* return False, "error"
ErrorVerdict == <<FALSE, "error">>

\* Lines 306-311 and 384-389: at or above the threshold a match, below 0.3 a
\* different face, in between a match again.
Compared(is_identical, score) ==
    IF is_identical \/ score >= FaceThreshold THEN <<TRUE, "match">>
    ELSE IF score < 3 THEN <<FALSE, "different_face">>
    ELSE <<TRUE, "match">>

\* Lines 321-389: the REST detect call and the comparison of features.
FeatureComparison(p) ==
    IF p.rest = "exception" THEN ErrorVerdict
    ELSE IF p.rest = "http_error" THEN ErrorVerdict
    ELSE IF p.rest = "no_face" THEN <<FALSE, "no_face">>
    ELSE IF p.stored # "features" THEN ErrorVerdict
    ELSE Compared(FALSE, p.similarity)

\* verify_face(snapshot_path, stored_face_data) -> (is_match, reason)
verify_face(p) ==
    IF ~p.available THEN <<TRUE, "bypass">>
    ELSE IF p.has_identification_feature /\ p.stored = "face_id"
    THEN IF p.sdk = "no_face" THEN <<FALSE, "no_face">>
         ELSE IF p.sdk = "verified" THEN Compared(p.is_identical, p.confidence)
         ELSE IF p.sdk = "expired" THEN FeatureComparison(p)
         ELSE ErrorVerdict
    ELSE FeatureComparison(p)

\* the (is_match, reason) pairs verify_face returns
FaceVerdicts == {verify_face(p) : p \in FacePaths}

\* ----------------------------------------------------------- verify_user
\* The test with "no_face" left out of the list.
is_face_violation_without_no_face(face_reason) == face_reason = "different_face"

\* The test written as "anything but a match fails".
is_face_violation_fail_closed(face_reason) == face_reason \notin {"match", "bypass"}

\* face_reason in ["no_face", "different_face"]
is_face_violation(face_reason) == face_reason \in {"no_face", "different_face"}

\* audio_match stays True without a clip; otherwise it is verify_audio's verdict
audio_match(audio) == audio # "mismatch"

\* violation_type of a poll; None when should_alert is False
violation_type(face_reason, audio) ==
    IF is_face_violation(face_reason) THEN "face_violation"
    ELSE IF ~audio_match(audio) THEN "audio_violation"
    ELSE None

should_alert(face_reason, audio) == violation_type(face_reason, audio) # None

\* Lines 352-359: the handler loads the Interview row and the Sample row, then
\* awaits the upload's read(); what it loaded stays in its session.
verify_user_begin(i, u) ==
    /\ IF ~Owned(i, u)
       THEN /\ resp' = Reply("verify_user", u, StatusOf(i), NoRequest, 404,
                             [detail |-> "Interview not found"])
            /\ UNCHANGED <<req, polls>>
       ELSE IF u \notin samples
       THEN /\ resp' = Reply("verify_user", u, StatusOf(i), NoRequest, 400,
                             [detail |-> "No samples found"])
            /\ UNCHANGED <<req, polls>>
       ELSE /\ CanSuspend
            /\ req' = Suspend([Request("verify_user", i) EXCEPT
                         !.status = interviews[i].status,
                         !.alert_count = interviews[i].alert_count])
            /\ polls' = PollBegun(i)
            /\ UNCHANGED resp
    /\ UNCHANGED <<samples, interviews, questions, answers, monitor>>

\* The poll's writes with a clean poll taking one alert back, at any count.
PollRowDecrements(row, c, face_reason, audio) ==
    IF should_alert(face_reason, audio)
    THEN IF c + 1 >= AlertCeiling
         THEN [row EXCEPT !.alert_count = c + 1,
                          !.status = "terminated",
                          !.termination_reason = violation_type(face_reason, audio)]
         ELSE [row EXCEPT !.alert_count = c + 1]
    ELSE [row EXCEPT !.alert_count = c - 1]

\* The poll's writes with the session terminated at its first alert.
PollRowTerminatesOnFirstAlert(row, c, face_reason, audio) ==
    IF should_alert(face_reason, audio)
    THEN [row EXCEPT !.alert_count = c + 1,
                     !.status = "terminated",
                     !.termination_reason = violation_type(face_reason, audio)]
    ELSE IF c > 0
         THEN [row EXCEPT !.alert_count = 0]
         ELSE row

\* The poll's writes with the ceiling tested by > in place of >=.
PollRowCeilingOffByOne(row, c, face_reason, audio) ==
    IF should_alert(face_reason, audio)
    THEN IF c + 1 > AlertCeiling
         THEN [row EXCEPT !.alert_count = c + 1,
                          !.status = "terminated",
                          !.termination_reason = violation_type(face_reason, audio)]
         ELSE [row EXCEPT !.alert_count = c + 1]
    ELSE IF c > 0
         THEN [row EXCEPT !.alert_count = 0]
         ELSE row

\* The poll's writes without the reset of lines 460-463.
PollRowWithoutReset(row, c, face_reason, audio) ==
    IF should_alert(face_reason, audio)
    THEN IF c + 1 >= AlertCeiling
         THEN [row EXCEPT !.alert_count = c + 1,
                          !.status = "terminated",
                          !.termination_reason = violation_type(face_reason, audio)]
         ELSE [row EXCEPT !.alert_count = c + 1]
    ELSE row

\* The row after the poll's writes: alert_count is computed from the value the
\* handler loaded before the await (c); status and termination_reason are set
\* on whatever the row holds now.
PollRow(row, c, face_reason, audio) ==
    IF should_alert(face_reason, audio)
    THEN IF c + 1 >= AlertCeiling
         THEN [row EXCEPT !.alert_count = c + 1,
                          !.status = "terminated",
                          !.termination_reason = violation_type(face_reason, audio)]
         ELSE [row EXCEPT !.alert_count = c + 1]
    ELSE IF c > 0
         THEN [row EXCEPT !.alert_count = 0]
         ELSE row

\* A message: the f-string and the values it formats (0 and None for a
\* message that formats nothing).
Message(text, count, violation) ==
    [text |-> text, alert_count |-> count, violation_type |-> violation]

\* The body with verified left true on the alert that does not terminate.
PollBodyVerifiedOnAlert(c, face_reason, audio) ==
    IF should_alert(face_reason, audio)
    THEN IF c + 1 >= AlertCeiling
         THEN [verified |-> FALSE, alert |-> TRUE, terminated |-> TRUE,
               violation_type |-> violation_type(face_reason, audio),
               alert_count |-> c + 1,
               message |-> Message("Interview terminated after {alert_count} violations: {violation_type}",
                                   c + 1, violation_type(face_reason, audio))]
         ELSE [verified |-> TRUE, alert |-> TRUE, alert_count |-> c + 1,
               violation_type |-> violation_type(face_reason, audio),
               message |-> Message("Identity verification failed: {violation_type} (Alert {alert_count}/5)",
                                   c + 1, violation_type(face_reason, audio))]
    ELSE IF c > 0
         THEN [verified |-> TRUE, alert |-> FALSE, alert_count |-> 0,
               alert_reset |-> TRUE,
               message |-> Message("Verification successful - alert count reset",
                                   0, None)]
         ELSE [verified |-> TRUE, alert |-> FALSE, alert_count |-> c]

\* The body with alert_count left out of the last return.
PollBodyWithoutPlainCount(c, face_reason, audio) ==
    IF should_alert(face_reason, audio)
    THEN IF c + 1 >= AlertCeiling
         THEN [verified |-> FALSE, alert |-> TRUE, terminated |-> TRUE,
               violation_type |-> violation_type(face_reason, audio),
               alert_count |-> c + 1,
               message |-> Message("Interview terminated after {alert_count} violations: {violation_type}",
                                   c + 1, violation_type(face_reason, audio))]
         ELSE [verified |-> FALSE, alert |-> TRUE, alert_count |-> c + 1,
               violation_type |-> violation_type(face_reason, audio),
               message |-> Message("Identity verification failed: {violation_type} (Alert {alert_count}/5)",
                                   c + 1, violation_type(face_reason, audio))]
    ELSE IF c > 0
         THEN [verified |-> TRUE, alert |-> FALSE, alert_count |-> 0,
               alert_reset |-> TRUE,
               message |-> Message("Verification successful - alert count reset",
                                   0, None)]
         ELSE [verified |-> TRUE, alert |-> FALSE]

\* The JSON body the poll returns.
PollBody(c, face_reason, audio) ==
    IF should_alert(face_reason, audio)
    THEN IF c + 1 >= AlertCeiling
         THEN [verified |-> FALSE, alert |-> TRUE, terminated |-> TRUE,
               violation_type |-> violation_type(face_reason, audio),
               alert_count |-> c + 1,
               message |-> Message("Interview terminated after {alert_count} violations: {violation_type}",
                                   c + 1, violation_type(face_reason, audio))]
         ELSE [verified |-> FALSE, alert |-> TRUE, alert_count |-> c + 1,
               violation_type |-> violation_type(face_reason, audio),
               message |-> Message("Identity verification failed: {violation_type} (Alert {alert_count}/5)",
                                   c + 1, violation_type(face_reason, audio))]
    ELSE IF c > 0
         THEN [verified |-> TRUE, alert |-> FALSE, alert_count |-> 0,
               alert_reset |-> TRUE,
               message |-> Message("Verification successful - alert count reset",
                                   0, None)]
         ELSE [verified |-> TRUE, alert |-> FALSE, alert_count |-> c]

\* The poll run as one transaction on the row: it loads alert_count and writes
\* it back with nothing in between.
AtomicPoll(row, payload) ==
    PollRow(row, row.alert_count, payload.face_reason, payload.audio)

\* The rows the two serial orders of two polls produce from row base.
SerialOutcomes(base, done) ==
    {AtomicPoll(AtomicPoll(base, done[1]), done[2]),
     AtomicPoll(AtomicPoll(base, done[2]), done[1])}

PollDone(i, payload, retry, row, body) ==
    LET raisedNow == IF row.alert_count > interviews[i].alert_count THEN 1 ELSE 0
        ends == InFlightPolls = 1
        done == Append(polls.done, payload)
        streak == [polls EXCEPT
            !.streak = IF should_alert(payload.face_reason, payload.audio)
                       THEN Min(@ + 1, AlertCeiling) ELSE 0]
        retries == [polls EXCEPT
            !.last = payload,
            !.raised = IF retry THEN @ + raisedNow ELSE raisedNow]
        overlap == [polls EXCEPT
            !.base = IF ends THEN NoRow ELSE @,
            !.size = IF ends THEN 0 ELSE @,
            !.done = IF ends \/ polls.size # 2 THEN <<>> ELSE done,
            !.clean = IF ends THEN TRUE ELSE @,
            !.atomic = IF ends /\ polls.size = 2 /\ polls.clean
                       THEN \E s \in SerialOutcomes(polls.base, done) :
                               /\ s.alert_count = row.alert_count
                               /\ s.status = row.status
                       ELSE TRUE]
        scenario == [polls EXCEPT
            !.seq = IF /\ @ \in 0..(Len(Scenario) - 1)
                       /\ payload.face_reason = Scenario[@ + 1]
                       /\ payload.audio # "mismatch"
                    THEN @ + 1 ELSE -1]
        same == /\ polls.first.set
                /\ polls.first.before = interviews[i]
                /\ polls.first.face_reason = payload.face_reason
                /\ polls.first.audio_match = (payload.audio # "mismatch")
        decision == [polls EXCEPT
            !.first = IF @.set THEN @
                      ELSE [set |-> TRUE, before |-> interviews[i],
                            face_reason |-> payload.face_reason,
                            audio_match |-> (payload.audio # "mismatch"),
                            after |-> row, body |-> body],
            !.agree = same => polls.first.after = row /\ polls.first.body = body]
        bursts == [polls EXCEPT
            !.burst = IF /\ @ \in 0..(AlertCeiling - 1)
                         /\ should_alert(payload.face_reason, payload.audio)
                      THEN @ + 1 ELSE -1]
    IN  IF "streak" \in monitor THEN streak
        ELSE IF "burst" \in monitor THEN bursts
        ELSE IF "first" \in monitor THEN decision
        ELSE IF "seq" \in monitor THEN scenario
        ELSE IF "retry" \in monitor THEN retries
        ELSE IF "overlap" \in monitor THEN overlap
        ELSE polls

\* Lines 382-473, after the awaits: the verdicts arrive and the handler runs to
\* its return without another await.
verify_user_finish(rq) ==
    /\ Suspended(rq)
    /\ \E verdict \in FaceVerdicts, audio \in AudioInputs, retry \in BOOLEAN :
        LET i == rq.iid
            c == rq.alert_count
            face_reason == verdict[2]
            payload == [face_match |-> verdict[1], face_reason |-> face_reason,
                        audio |-> audio]
        IN  /\ should_alert(face_reason, audio) => c < MaxAlertCount
            /\ retry => "retry" \in monitor /\ payload = polls.last
            /\ interviews' = [interviews EXCEPT
                                ![i] = PollRow(interviews[i], c, face_reason, audio)]
            /\ polls' = PollDone(i, payload, retry,
                                 PollRow(interviews[i], c, face_reason, audio),
                                 PollBody(c, face_reason, audio))
            /\ resp' = Reply("verify_user", interviews[i].user_id, rq.status,
                             payload, 200,
                             PollBody(c, face_reason, audio))
    /\ req' = Resume(rq)
    /\ UNCHANGED <<samples, questions, answers, monitor>>

\* ------------------------------------------------------------ completion
\* The test with the last question left out of the count.
is_completed_one_early(answered_count) == answered_count >= TotalQuestions - 1

\* The completion test passing one answer late.
is_completed_one_late(answered_count) == answered_count >= TotalQuestions + 1

\* is_completed = answered_count >= 10
is_completed(answered_count) == answered_count >= TotalQuestions

\* The row completed with its alerts wiped.
CompletedRowResetsAlerts(row) ==
    [row EXCEPT !.status = "completed", !.alert_count = 0]

\* interview.status = "completed"
CompletedRow(row) == [row EXCEPT !.status = "completed"]

\* ---------------------------------------------------------- get_question
\* get_question handlers of interview i that are about to store a Question row
Issuing(i) ==
    LET Waiting == {rq \in BagToSet(req) : rq.pc = "get_question" /\ rq.iid = i}
    IN  BagCardinality([rq \in Waiting |-> req[rq]])

\* Lines 214-232: everything before the await on question_service.
get_question_begin(i, u) ==
    /\ IF ~Owned(i, u)
       THEN /\ resp' = Reply("get_question", u, StatusOf(i), NoRequest, 404,
                             [detail |-> "Interview not found"])
            /\ UNCHANGED <<interviews, req>>
       ELSE IF interviews[i].status = "completed"
       THEN /\ resp' = Reply("get_question", u, StatusOf(i), NoRequest, 200,
                             [completed |-> TRUE,
                              message |-> "Interview already completed"])
            /\ UNCHANGED <<interviews, req>>
       ELSE IF interviews[i].status = "terminated"
       THEN /\ resp' = Reply("get_question", u, StatusOf(i), NoRequest, 200,
                             [completed |-> TRUE, terminated |-> TRUE,
                              message |-> "Interview was terminated"])
            /\ UNCHANGED <<interviews, req>>
       ELSE IF AnswerCount(answers, i) >= TotalQuestions
       THEN /\ interviews' = [interviews EXCEPT ![i] = CompletedRow(@)]
            /\ resp' = Reply("get_question", u, StatusOf(i), NoRequest, 200,
                             [completed |-> TRUE, message |-> "Interview completed"])
            /\ UNCHANGED req
       ELSE /\ CanSuspend
            /\ questions[i] + Issuing(i) < MaxQuestions
            /\ req' = Suspend([Request("get_question", i) EXCEPT
                         !.answered_count = AnswerCount(answers, i)])
            /\ UNCHANGED <<interviews, resp>>
    /\ polls' = Disturbed
    /\ UNCHANGED <<samples, questions, answers, monitor>>

\* Lines 237-261: the Question row is stored and returned.
get_question_finish(rq) ==
    /\ Suspended(rq)
    /\ LET i == rq.iid
       IN  /\ questions' = [questions EXCEPT ![i] = @ + 1]
           /\ resp' = Reply("get_question", interviews[i].user_id, rq.status, NoRequest, 200,
                            [question_id |-> questions[i] + 1,
                             question_number |-> rq.answered_count + 1,
                             total_questions |-> TotalQuestions])
    /\ req' = Resume(rq)
    /\ UNCHANGED <<samples, interviews, answers, monitor, polls>>

\* ------------------------------------------------------- evaluate_answer
\* How the call to the language model ends: it raises (an exception or the
\* 30 s timeout), answers another status than 200, or answers 200 with a
\* content that is JSON or plain text, and in which the score is a number, is
\* missing, or does not convert to a number.
EvalReplies ==
    {"exception", "timeout", "http_error",
     "json_score", "json_no_score", "json_bad_score",
     "text_score", "text_no_score", "text_bad_score"}

\* The fallback with the score at 0.
FallbackEvaluationZero ==
    [score |-> 0, feedback |-> "Answer received. Evaluation pending."]

\* Lines 88-92: the fallback evaluation.
FallbackEvaluation ==
    [score |-> 50, feedback |-> "Answer received. Evaluation pending."]

\* evaluate_answer(question, answer, interview_type) -> {score, feedback};
\* 100 stands for the score the model gave.
evaluate_answer(reply) ==
    IF reply \in {"exception", "timeout"} THEN FallbackEvaluation
    ELSE IF reply = "http_error" THEN FallbackEvaluation
    ELSE IF reply = "json_score"
    THEN [score |-> 100, feedback |-> "{feedback of the reply}"]
    ELSE IF reply = "json_no_score"
    THEN [score |-> 50, feedback |-> "{feedback of the reply}"]
    ELSE IF reply = "json_bad_score" THEN FallbackEvaluation
    ELSE IF reply = "text_score"
    THEN [score |-> 100, feedback |-> "{content of the reply}"]
    ELSE [score |-> 50, feedback |-> "{content of the reply}"]

\* --------------------------------------------------------- submit_answer
\* Lines 271-283: the checks before the await on evaluate_answer.
submit_answer_begin(i, u, question_id) ==
    /\ IF ~Owned(i, u)
       THEN /\ resp' = Reply("submit_answer", u, StatusOf(i), NoRequest, 404,
                             [detail |-> "Interview not found"])
            /\ UNCHANGED req
       ELSE IF interviews[i].status = "terminated"
       THEN /\ resp' = Reply("submit_answer", u, StatusOf(i), NoRequest, 400,
                             [detail |-> "Interview has been terminated"])
            /\ UNCHANGED req
       ELSE IF interviews[i].status = "completed"
       THEN /\ resp' = Reply("submit_answer", u, StatusOf(i), NoRequest, 400,
                             [detail |-> "Interview already completed"])
            /\ UNCHANGED req
       ELSE IF question_id > questions[i]
       THEN /\ resp' = Reply("submit_answer", u, StatusOf(i), NoRequest, 404,
                             [detail |-> "Question not found"])
            /\ UNCHANGED req
       ELSE /\ CanSuspend
            /\ req' = Suspend([Request("submit_answer", i) EXCEPT
                         !.status = interviews[i].status,
                         !.question_id = question_id])
            /\ UNCHANGED resp
    /\ UNCHANGED <<samples, interviews, questions, answers, monitor, polls>>

\* Lines 292-317: the Answer row is stored, the rows are counted and the
\* interview is completed at 10.
submit_answer_finish(rq) ==
    /\ Suspended(rq)
    /\ \E reply \in EvalReplies :
       LET i == rq.iid
           evaluation == evaluate_answer(reply)
           stored == [answers EXCEPT ![i][rq.question_id] = @ + 1]
           completed == is_completed(AnswerCount(stored, i))
       IN  /\ answers' = stored
           /\ interviews' = IF completed
                            THEN [interviews EXCEPT ![i] = CompletedRow(@)]
                            ELSE interviews
           /\ resp' = Reply("submit_answer", interviews[i].user_id, rq.status,
                            [reply |-> reply], 200,
                            [answer_id |-> AnswerCount(stored, i),
                             score |-> evaluation.score,
                             feedback |-> evaluation.feedback,
                             next_question_available |-> ~completed,
                             interview_completed |-> completed])
    /\ req' = Resume(rq)
    /\ polls' = Disturbed
    /\ UNCHANGED <<samples, questions, monitor>>

\* ----------------------------------------------------------- get_summary
\* The handler without the check of lines 491-492.
get_summary_without_status_check(i, u) ==
    /\ IF ~Owned(i, u)
       THEN resp' = Reply("get_summary", u, StatusOf(i), NoRequest, 404,
                          [detail |-> "Interview not found"])
       ELSE resp' = Reply("get_summary", u, StatusOf(i), NoRequest, 200,
                          [interview_id |-> i,
                           status |-> interviews[i].status,
                           termination_reason |-> interviews[i].termination_reason,
                           total_questions |-> AnswerCount(answers, i)])
    /\ UNCHANGED <<samples, interviews, questions, answers, req, monitor, polls>>

get_summary(i, u) ==
    /\ IF ~Owned(i, u)
       THEN resp' = Reply("get_summary", u, StatusOf(i), NoRequest, 404,
                          [detail |-> "Interview not found"])
       ELSE IF interviews[i].status \notin {"completed", "terminated"}
       THEN resp' = Reply("get_summary", u, StatusOf(i), NoRequest, 400,
                          [detail |-> "Interview not completed or terminated yet"])
       ELSE resp' = Reply("get_summary", u, StatusOf(i), NoRequest, 200,
                          [interview_id |-> i,
                           status |-> interviews[i].status,
                           termination_reason |-> interviews[i].termination_reason,
                           total_questions |-> AnswerCount(answers, i)])
    /\ UNCHANGED <<samples, interviews, questions, answers, req, monitor, polls>>

Next ==
    \/ \E u \in Candidates : upload_samples(u)
    \/ \E u \in Users : start_interview(u)
    \/ \E i \in InterviewIds, u \in Users : terminate_interview(i, u)
    \/ \E i \in InterviewIds, u \in Users : verify_user_begin(i, u)
    \/ \E rq \in VerifyRequests : verify_user_finish(rq)
    \/ \E i \in InterviewIds, u \in Users : get_question_begin(i, u)
    \/ \E rq \in QuestionRequests : get_question_finish(rq)
    \/ \E i \in InterviewIds, u \in Users, q \in QuestionIds :
          submit_answer_begin(i, u, q)
    \/ \E rq \in AnswerRequests : submit_answer_finish(rq)
    \/ \E i \in InterviewIds, u \in Users : get_summary(i, u)

Spec == Init /\ [][Next]_vars
SpecResp == InitResp /\ [][Next]_vars
SpecStreak == InitStreak /\ [][Next]_vars
SpecRetry == InitRetry /\ [][Next]_vars
SpecOverlap == InitOverlap /\ [][Next]_vars
SpecSeq == InitSeq /\ [][Next]_vars
SpecFirst == InitFirst /\ [][Next]_vars
SpecBurst == InitBurst /\ [][Next]_vars

\* Scheduling: the event loop resumes every suspended handler once the call it
\* awaits has returned (weak fairness of the finish steps), and the candidate
\* keeps fetching and answering: a get_question or submit_answer that can be
\* started again and again is eventually started.  The server never refuses to
\* start a handler; here a start is disabled while MaxRequests handlers are
\* suspended, hence strong fairness of the start steps.
Fairness ==
    /\ WF_vars(\E rq \in VerifyRequests : verify_user_finish(rq))
    /\ WF_vars(\E rq \in QuestionRequests : get_question_finish(rq))
    /\ WF_vars(\E rq \in AnswerRequests : submit_answer_finish(rq))
    /\ SF_vars(\E i \in InterviewIds, u \in Users : get_question_begin(i, u))
    /\ SF_vars(\E i \in InterviewIds, u \in Users, q \in QuestionIds :
                  submit_answer_begin(i, u, q))
SpecLive == Init /\ [][Next]_vars /\ Fairness
\* =================================================================== claims
Final == {"completed", "terminated"}
Violations == {"face_violation", "audio_violation"}

\* This step is the finish of a suspended verify_user handler (a processed poll).
PollAnswered(rq) == rq.pc = "verify_user" /\ req' = Resume(rq)

\* C1: in every reachable state, termination_reason is non-null exactly when
\* status is terminated.
C1_ReasonIffTerminated ==
    \A i \in DOMAIN interviews :
        (interviews[i].termination_reason # None) <=> (interviews[i].status = "terminated")

\* C2: a step changes status only from pending to in_progress or from
\* in_progress to completed or terminated; a completed session is never
\* terminated afterwards and a terminated one is never completed.
C2_Lifecycle ==
    [][\A i \in DOMAIN interviews :
          \/ interviews'[i].status = interviews[i].status
          \/ interviews[i].status = "pending" /\ interviews'[i].status = "in_progress"
          \/ interviews[i].status = "in_progress" /\ interviews'[i].status \in Final]_vars

\* C3: a poll that loaded a session whose status was already terminated or
\* completed leaves status, alert_count, consecutive_face_failures and
\* termination_reason as they are, whatever verdicts it carries.
C3_FinalPollNoOp ==
    [][\A rq \in BagToSet(req) :
          PollAnswered(rq) /\ rq.status \in Final
          => interviews'[rq.iid] = interviews[rq.iid]]_vars

\* C4: once the session is terminated, a poll with the same verdicts as the poll
\* answered just before it gets the same response body.
C4_ReplaySameResponse ==
    [][\A rq \in BagToSet(req) :
          /\ PollAnswered(rq)
          /\ resp.op = "verify_user" /\ resp.code = 200 /\ resp.status = "terminated"
          /\ resp'.status = "terminated"
          /\ resp'.request = resp.request
          => resp'.body = resp.body]_vars

\* C5: once termination_reason is set on a terminated session, no step changes it.
C5_ReasonWriteOnce ==
    [][\A i \in DOMAIN interviews :
          interviews[i].status = "terminated" /\ interviews[i].termination_reason # None
          => interviews'[i].termination_reason = interviews[i].termination_reason]_vars

\* C6: terminate_interview called by the owner leaves the session terminated,
\* never changes alert_count, and keeps the termination_reason of a session that
\* is already terminated with a reason.
C6_ManualTermination ==
    [][\A i \in DOMAIN interviews, u \in Users :
          terminate_interview(i, u)
          => /\ interviews'[i].alert_count = interviews[i].alert_count
             /\ Owned(i, u) => interviews'[i].status = "terminated"
             /\ interviews[i].status = "terminated"
                /\ interviews[i].termination_reason # None
                => interviews'[i].termination_reason
                      = interviews[i].termination_reason]_vars

\* C6 witness: terminate_interview has answered for a session that a poll had
\* terminated, and the poll's reason is still there.
C6_Witness ==
    /\ resp.op = "terminate_interview" /\ resp.code = 200
    /\ resp.status = "terminated"
    /\ interviews[1].status = "terminated"
    /\ interviews[1].termination_reason \in Violations

\* C7: when two polls of a session overlap, the alert_count and status they
\* leave are those of one of the two serial orders.
C7_PollsSerializable == polls.atomic

\* C8: the deliveries of one poll (the poll and its network retries) increase
\* the stored alert_count at most once in total.
C8_RetryCountedOnce == polls.raised <= 1

\* C9: a poll processed on an in_progress session that raises a violation
\* increases the stored alert_count by exactly 1; below the ceiling the session
\* stays in_progress with no termination_reason, at the ceiling it becomes
\* terminated with the poll's violation type.
C9_AlertAccumulation ==
    [][\A rq \in BagToSet(req) :
          /\ PollAnswered(rq)
          /\ interviews[rq.iid].status = "in_progress"
          /\ resp'.body.alert
          => LET old == interviews[rq.iid]
                 new == interviews'[rq.iid]
             IN  /\ new.alert_count = old.alert_count + 1
                 /\ new.alert_count < AlertCeiling
                    => new.status = "in_progress" /\ new.termination_reason = None
                 /\ new.alert_count >= AlertCeiling
                    => /\ new.status = "terminated"
                       /\ new.termination_reason = resp'.body.violation_type]_vars

\* C10: when a poll terminates a session for a face or audio violation, the
\* polls processed last, as many as the ceiling, all raised a violation.
C10_CeilingOnBursts ==
    [][\A rq \in BagToSet(req) :
          /\ PollAnswered(rq)
          /\ interviews[rq.iid].status # "terminated"
          /\ interviews'[rq.iid].status = "terminated"
          /\ interviews'[rq.iid].termination_reason \in Violations
          => polls'.streak >= AlertCeiling]_vars

\* The face verdicts that are a violation, and the verdicts of a poll that
\* raises none.
FaceViolationReasons == {"no_face", "different_face"}
CleanVerdicts(payload) ==
    payload.face_reason \notin FaceViolationReasons /\ payload.audio # "mismatch"

\* C11: a poll with a non-violating face verdict and matching audio, processed
\* on an in_progress session whose alert_count is above 0, leaves alert_count
\* and consecutive_face_failures at 0 and answers verified = true,
\* alert = false, alert_count = 0.
C11_CleanPollResets ==
    [][\A rq \in BagToSet(req) :
          /\ PollAnswered(rq)
          /\ interviews[rq.iid].status = "in_progress"
          /\ interviews[rq.iid].alert_count > 0
          /\ CleanVerdicts(resp'.request)
          => /\ interviews'[rq.iid].alert_count = 0
             /\ interviews'[rq.iid].consecutive_face_failures = 0
             /\ resp'.body.verified /\ ~resp'.body.alert
             /\ resp'.body.alert_count = 0]_vars

C14_AudioNotDebounced ==
    [][\A rq \in BagToSet(req) :
          /\ PollAnswered(rq)
          /\ interviews[rq.iid].status = "in_progress"
          /\ resp'.request.face_reason \notin FaceViolationReasons
          /\ resp'.request.audio = "mismatch"
          => /\ resp'.body.alert
             /\ resp'.body.violation_type = "audio_violation"
             /\ interviews'[rq.iid].alert_count
                   = interviews[rq.iid].alert_count + 1]_vars

\* C15: a poll with both a face violation and audio_match false records
\* face_violation, and the stored alert_count goes up by exactly 1.
C15_FacePriority ==
    [][\A rq \in BagToSet(req) :
          /\ PollAnswered(rq)
          /\ resp'.request.face_reason \in FaceViolationReasons
          /\ resp'.request.audio = "mismatch"
          => /\ resp'.body.violation_type = "face_violation"
             /\ interviews'[rq.iid].alert_count
                   = interviews[rq.iid].alert_count + 1]_vars

\* The face verdicts the classification lets pass.
FailOpenReasons == {"match", "bypass", "expired_face_id", "error"}

\* C16: a face verdict of match, bypass, expired_face_id or error is never a
\* face violation; a poll with such a verdict and audio_match true raises no
\* alert, does not increase alert_count and does not change status; a
\* face_violation is recorded only for no_face and different_face.
C16_FailOpen ==
    [][\A rq \in BagToSet(req) :
          PollAnswered(rq)
          => /\ \A r \in FailOpenReasons : ~is_face_violation(r)
             /\ resp'.body.alert /\ resp'.body.violation_type = "face_violation"
                => resp'.request.face_reason \in {"no_face", "different_face"}
             /\ resp'.request.face_reason \in FailOpenReasons
                /\ resp'.request.audio # "mismatch"
                => /\ ~resp'.body.alert
                   /\ interviews'[rq.iid].alert_count
                         <= interviews[rq.iid].alert_count
                   /\ interviews'[rq.iid].status = interviews[rq.iid].status
                   /\ interviews'[rq.iid].termination_reason
                         = interviews[rq.iid].termination_reason]_vars

\* C16 witness: a poll whose face verification ended in an error was answered
\* on a session that had an alert, and the session is still in progress.
C16_Witness ==
    /\ resp.op = "verify_user" /\ resp.code = 200
    /\ resp.request.face_reason = "error" /\ resp.request.audio = "match"
    /\ resp.status = "in_progress"
    /\ "alert_reset" \in DOMAIN resp.body
    /\ interviews[1].status = "in_progress"

\* C17: in the response to every poll, verified is true exactly when the poll
\* raised no violation and alert is true exactly when it raised one.
C17_VerifiedIffNoViolation ==
    [][\A rq \in BagToSet(req) :
          PollAnswered(rq)
          => LET raised == \/ resp'.request.face_reason \in FaceViolationReasons
                           \/ resp'.request.audio = "mismatch"
             IN  /\ resp'.body.verified <=> ~raised
                 /\ resp'.body.alert <=> raised
                 /\ resp'.body.verified <=> ~resp'.body.alert]_vars

\* C17 witness: a poll with a matching face and mismatching audio was answered
\* with alert and without verified.
C17_Witness ==
    /\ resp.op = "verify_user" /\ resp.code = 200
    /\ resp.request.face_reason = "match" /\ resp.request.audio = "mismatch"
    /\ resp.body.alert /\ ~resp.body.verified

SixFields == {"verified", "alert", "alert_count", "violation_type", "terminated",
              "message"}

\* C18: the response to every poll carries the six fields verified, alert,
\* alert_count, violation_type, terminated and message.
C18_SixFields ==
    [][\A rq \in BagToSet(req) :
          PollAnswered(rq) => SixFields \subseteq DOMAIN resp'.body]_vars

\* C18 as the code has it: every response carries verified, alert and
\* alert_count; the terminating alert carries all six fields, the other alert
\* all but terminated, the clean poll that resets carries message and
\* alert_reset, and the clean poll that resets nothing carries nothing more.
C18_FieldsPerBranch ==
    [][\A rq \in BagToSet(req) :
          PollAnswered(rq)
          => DOMAIN resp'.body =
                IF resp'.body.alert /\ resp'.body.alert_count >= AlertCeiling
                THEN SixFields
                ELSE IF resp'.body.alert
                THEN SixFields \ {"terminated"}
                ELSE IF rq.alert_count > 0
                THEN {"verified", "alert", "alert_count", "alert_reset", "message"}
                ELSE {"verified", "alert", "alert_count"}]_vars

\* C18 witness: an alert that did not terminate was answered without the
\* field terminated.
C18_Witness ==
    /\ resp.op = "verify_user" /\ resp.code = 200
    /\ resp.body.alert
    /\ "terminated" \notin DOMAIN resp.body
    /\ interviews[1].status = "in_progress"

\* C19: alert_count and consecutive_face_failures of every session are never
\* negative.
C19_CountersNonNegative ==
    \A i \in DOMAIN interviews :
        /\ interviews[i].alert_count >= 0
        /\ interviews[i].consecutive_face_failures >= 0

\* C19 witness: a clean poll has just reset the counter of a session that had
\* alerts.
C19_Witness ==
    /\ resp.op = "verify_user" /\ resp.code = 200
    /\ resp.request.face_reason = "match"
    /\ "alert_reset" \in DOMAIN resp.body
    /\ interviews[1].alert_count = 0
    /\ interviews[1].consecutive_face_failures = 0

\* C20: a step lowers alert_count or consecutive_face_failures of a session
\* only when it is a poll with a non-violating face verdict and matching audio
\* that sets alert_count to 0.
C20_CountersMonotone ==
    [][\A i \in DOMAIN interviews :
          \/ interviews'[i].alert_count < interviews[i].alert_count
          \/ interviews'[i].consecutive_face_failures
                < interviews[i].consecutive_face_failures
          => \E rq \in BagToSet(req) :
                /\ PollAnswered(rq) /\ rq.iid = i
                /\ CleanVerdicts(resp'.request)
                /\ interviews'[i].alert_count = 0]_vars

\* C21: in every interleaving of submit_answer and get_question calls, a step
\* takes a session from in_progress to completed only when it leaves exactly 10
\* answers recorded for that session.
C21_CompletedAtTen ==
    [][\A i \in DOMAIN interviews :
          /\ interviews[i].status = "in_progress"
          /\ interviews'[i].status = "completed"
          => SumTo(answers'[i], MaxQuestions) = 10]_vars

\* C21 witness: a session that was never terminated is completed with 10
\* answers, while another submit_answer that had passed the status check is
\* still waiting for its evaluation.
C21_Witness ==
    /\ 1 \in DOMAIN interviews
    /\ interviews[1].status = "completed"
    /\ interviews[1].termination_reason = None
    /\ SumTo(answers[1], MaxQuestions) = 10
    /\ \E rq \in BagToSet(req) : rq.pc = "submit_answer"

\* C22: a step makes a session terminated only when it is a terminate_interview
\* call or a poll whose violation brings alert_count to the ceiling;
\* submit_answer, get_question, get_summary and the other polls never do.
C22_TerminatedByTrigger ==
    [][\A i \in DOMAIN interviews :
          /\ interviews[i].status # "terminated"
          /\ interviews'[i].status = "terminated"
          => \/ \E u \in Users : terminate_interview(i, u)
             \/ \E rq \in BagToSet(req) :
                   /\ PollAnswered(rq) /\ rq.iid = i
                   /\ interviews'[i].alert_count = rq.alert_count + 1
                   /\ interviews'[i].alert_count >= 5
                   /\ interviews'[i].termination_reason \in Violations]_vars

\* C22 witness: a poll has terminated the session at the ceiling while a
\* submit_answer is waiting for its evaluation.
C22_Witness ==
    /\ 1 \in DOMAIN interviews
    /\ interviews[1].status = "terminated"
    /\ interviews[1].termination_reason = "audio_violation"
    /\ interviews[1].alert_count = 5
    /\ \E rq \in BagToSet(req) : rq.pc = "submit_answer"

\* C23: start_interview for a user without a Sample is rejected with an error
\* and creates no Interview row, and the owner of every Interview row has a
\* Sample.
C23_StartNeedsSample ==
    [][/\ \A u \in Users :
            start_interview(u) /\ u \notin samples
            => interviews' = interviews /\ resp'.code = 400
       /\ \A i \in DOMAIN interviews' : interviews'[i].user_id \in samples']_vars

\* C23 witness: a user without a Sample was refused an interview after the
\* candidate with a Sample had started one.
C23_Witness ==
    /\ resp.op = "start_interview" /\ resp.code = 400
    /\ resp.user \notin samples
    /\ Len(interviews) = 1
    /\ interviews[1].user_id \in samples

\* The previous answered request was a terminate_interview call of the owner.
JustTerminated == resp.op = "terminate_interview" /\ resp.code = 200

\* C24: a terminate_interview call that follows another one leaves status and
\* termination_reason as the first call left them, and every call returns the
\* session's current status and termination_reason.
C24_TerminateIdempotent ==
    [][\A i \in DOMAIN interviews, u \in Users :
          terminate_interview(i, u) /\ Owned(i, u)
          => /\ JustTerminated
                => /\ interviews'[i].status = interviews[i].status
                   /\ interviews'[i].termination_reason
                         = interviews[i].termination_reason
             /\ {"status", "termination_reason"} \subseteq DOMAIN resp'.body
             /\ resp'.body.status = interviews'[i].status
             /\ resp'.body.termination_reason
                   = interviews'[i].termination_reason]_vars

\* C24 as the code has it: a terminate_interview call that follows another one
\* leaves the whole row as it is, and every call returns a message and the
\* interview id only.
C24_TerminateRepeatable ==
    [][\A i \in DOMAIN interviews, u \in Users :
          terminate_interview(i, u) /\ Owned(i, u)
          => /\ JustTerminated => interviews'[i] = interviews[i]
             /\ interviews'[i].status = "terminated"
             /\ interviews'[i].termination_reason # None
             /\ DOMAIN resp'.body = {"message", "interview_id"}]_vars

\* C24 witness: terminate_interview was answered for a session it found
\* terminated by an earlier call.
C24_Witness ==
    /\ resp.op = "terminate_interview" /\ resp.code = 200
    /\ resp.status = "terminated"
    /\ interviews[1].status = "terminated"
    /\ interviews[1].termination_reason = "tab_switch"
    /\ interviews[1].alert_count = 0

\* C25: get_summary of the owner answers an error without a summary while the
\* session is pending or in_progress, and the summary with the session's
\* status and termination_reason once it is completed or terminated; it never
\* changes an Interview row.
C25_SummaryWhenFinal ==
    [][\A i \in DOMAIN interviews, u \in Users :
          get_summary(i, u) /\ Owned(i, u)
          => /\ interviews' = interviews
             /\ interviews[i].status \in {"pending", "in_progress"}
                => resp'.code = 400 /\ DOMAIN resp'.body = {"detail"}
             /\ interviews[i].status \in {"completed", "terminated"}
                => /\ resp'.code = 200
                   /\ resp'.body.status = interviews[i].status
                   /\ resp'.body.termination_reason
                         = interviews[i].termination_reason]_vars

\* C25 witness: the summary of a session terminated by a poll was served.
C25_Witness ==
    /\ resp.op = "get_summary" /\ resp.code = 200
    /\ resp.body.status = "terminated"
    /\ resp.body.termination_reason = "face_violation"
    /\ interviews[1].status = "terminated"

\* C26: the reason verify_face returns is always one of match, no_face,
\* different_face, expired_face_id, bypass and error, and the boolean it
\* returns is true exactly when the reason is match or bypass.
C26_ClosedVocabulary ==
    resp.op = "verify_user" /\ resp.code = 200
    => /\ resp.request.face_reason \in
            {"match", "no_face", "different_face", "expired_face_id", "bypass",
             "error"}
       /\ resp.request.face_match
            <=> resp.request.face_reason \in {"match", "bypass"}

\* C26 witness: a poll whose face verification ended in an error was answered;
\* verify_face had returned false with the reason error.
C26_Witness ==
    /\ resp.op = "verify_user" /\ resp.code = 200
    /\ resp.request.face_reason = "error"
    /\ ~resp.request.face_match
    /\ resp.body.verified

\* This step is a step of submit_answer, get_question, start_interview or
\* get_summary.
SessionManagerStep ==
    \/ \E u \in Users : start_interview(u)
    \/ \E i \in InterviewIds, u \in Users : get_question_begin(i, u)
    \/ \E rq \in QuestionRequests : get_question_finish(rq)
    \/ \E i \in InterviewIds, u \in Users, q \in QuestionIds :
          submit_answer_begin(i, u, q)
    \/ \E rq \in AnswerRequests : submit_answer_finish(rq)
    \/ \E i \in InterviewIds, u \in Users : get_summary(i, u)

\* C27: submit_answer, get_question, start_interview and get_summary leave
\* alert_count, consecutive_face_failures and termination_reason of every
\* existing session as they are.
C27_ProctoringFieldsOwned ==
    [][SessionManagerStep
       => \A i \in DOMAIN interviews :
             /\ interviews'[i].alert_count = interviews[i].alert_count
             /\ interviews'[i].consecutive_face_failures
                   = interviews[i].consecutive_face_failures
             /\ interviews'[i].termination_reason
                   = interviews[i].termination_reason]_vars

\* C27 witness: a session with alerts counted has been completed by its 10th
\* answer, and the alerts are still counted.
C27_Witness ==
    /\ 1 \in DOMAIN interviews
    /\ interviews[1].status = "completed"
    /\ interviews[1].alert_count > 0
    /\ interviews[1].termination_reason = None
    /\ req = EmptyBag

\* C28: a poll that finds a session with the status, alert_count,
\* consecutive_face_failures and termination_reason an earlier poll found, and
\* carries the same face_reason and audio_match, leaves the session in the
\* same state and returns the same response as that earlier poll.
C28_PollDeterministic == polls.agree

\* C29: from a fresh in_progress session, with polls processed one at a time,
\* the k-th violating poll in a row is answered alert = true with
\* alert_count = k; the session is in_progress after polls 1 to 4 and is
\* terminated at poll 5, with the violation type of that poll as
\* termination_reason.
C29_CeilingFive ==
    [][\A rq \in BagToSet(req) :
          PollAnswered(rq) /\ polls'.burst \in 1..5
          => LET new == interviews'[rq.iid]
             IN  /\ resp'.body.alert
                 /\ resp'.body.alert_count = polls'.burst
                 /\ new.alert_count = polls'.burst
                 /\ polls'.burst < 5
                    => /\ new.status = "in_progress"
                       /\ new.termination_reason = None
                       /\ "terminated" \notin DOMAIN resp'.body
                 /\ polls'.burst = 5
                    => /\ new.status = "terminated"
                       /\ new.termination_reason = resp'.body.violation_type
                       /\ resp'.body.terminated]_vars

\* C29 witness: the fifth violating poll in a row, an audio mismatch, has
\* terminated the session.
C29_Witness ==
    /\ polls.burst = 5
    /\ resp.op = "verify_user" /\ resp.request.audio = "mismatch"
    /\ resp.body.alert_count = 5
    /\ interviews[1].status = "terminated"
    /\ interviews[1].termination_reason = "audio_violation"

\* This step is the finish of a suspended submit_answer handler.
AnswerStored(rq) == rq.pc = "submit_answer" /\ req' = Resume(rq)

FixedFeedback == "Answer received. Evaluation pending."

\* C30: when the call to the language model raises, times out, answers a
\* status other than 200 or gives a score that does not convert to a number,
\* the evaluation is score 50 with the fixed feedback text, and submit_answer
\* still stores the answer, so that the answered count goes up by one.
C30_EvaluationFallback ==
    [][\A rq \in BagToSet(req) :
          /\ AnswerStored(rq)
          /\ resp'.request.reply \in {"exception", "timeout", "http_error",
                                       "json_bad_score", "text_bad_score"}
          => /\ resp'.code = 200
             /\ resp'.body.score = 50
             /\ resp'.body.feedback = FixedFeedback
             /\ SumTo(answers'[rq.iid], MaxQuestions)
                   = SumTo(answers[rq.iid], MaxQuestions) + 1]_vars

\* C30 as the code has it: the evaluation is score 50 with the fixed feedback
\* text when the call raises, times out, answers a status other than 200 or
\* gives JSON whose score does not convert; it is score 50 with the reply's
\* own text as feedback when the reply is not JSON and its score cannot be
\* read; in each case submit_answer stores the answer and the answered count
\* goes up by one.
C30_FallbackPerPath ==
    [][\A rq \in BagToSet(req) :
          AnswerStored(rq)
          => /\ resp'.code = 200
             /\ SumTo(answers'[rq.iid], MaxQuestions)
                   = SumTo(answers[rq.iid], MaxQuestions) + 1
             /\ resp'.request.reply \in {"exception", "timeout", "http_error",
                                          "json_bad_score"}
                => /\ resp'.body.score = 50
                   /\ resp'.body.feedback = FixedFeedback
             /\ resp'.request.reply = "text_bad_score"
                => /\ resp'.body.score = 50
                   /\ resp'.body.feedback = "{content of the reply}"]_vars

\* C30 witness: an answer whose evaluation timed out was stored with the
\* fallback score.
C30_Witness ==
    /\ resp.op = "submit_answer" /\ resp.code = 200
    /\ resp.request.reply = "timeout"
    /\ resp.body.score = 50
    /\ resp.body.feedback = FixedFeedback
    /\ SumTo(answers[1], MaxQuestions) = resp.body.answer_id

\* This step is the finish of a suspended get_question handler: the Question
\* row is stored and returned.
QuestionIssued(rq) == rq.pc = "get_question" /\ req' = Resume(rq)

\* C31: get_question issues a question only for a session that is in_progress
\* with fewer than 10 answers recorded, and reports as question_number the
\* number of recorded answers plus 1, within 1..10; with 10 or more answers it
\* completes the session and issues nothing; for a completed or terminated
\* session it issues nothing and changes nothing.
C31_QuestionOnlyInProgress ==
    [][/\ \A rq \in BagToSet(req) :
            QuestionIssued(rq)
            => /\ interviews[rq.iid].status = "in_progress"
               /\ SumTo(answers[rq.iid], MaxQuestions) < 10
               /\ resp'.body.question_number
                     = SumTo(answers[rq.iid], MaxQuestions) + 1
               /\ resp'.body.question_number \in 1..10
       /\ \A i \in DOMAIN interviews, u \in Users :
            get_question_begin(i, u) /\ Owned(i, u)
            => /\ interviews[i].status \in Final
                  => interviews' = interviews /\ req' = req
               /\ interviews[i].status \notin Final
                  /\ SumTo(answers[i], MaxQuestions) >= 10
                  => interviews'[i].status = "completed" /\ req' = req]_vars

\* C32: every session created by start_interview begins with status
\* in_progress (never pending), alert_count 0, consecutive_face_failures 0 and
\* no termination_reason.
C32_CreatedInProgress ==
    [][\A u \in Users :
          start_interview(u) /\ Len(interviews') = Len(interviews) + 1
          => LET row == interviews'[Len(interviews')]
             IN  /\ row.status = "in_progress"
                 /\ row.alert_count = 0
                 /\ row.consecutive_face_failures = 0
                 /\ row.termination_reason = None
                 /\ row.user_id = u]_vars

\* start_interview has just created session 1.
C32_Witness ==
    /\ resp.op = "start_interview" /\ resp.code = 200
    /\ resp.body.interview_id = 1
    /\ interviews[1].status = "in_progress"

\* C33: alert_count never exceeds the ceiling of 5 in any reachable state,
\* polls that arrive after the session was terminated or completed included.
C33_AlertCountAtMostCeiling ==
    \A i \in DOMAIN interviews : interviews[i].alert_count <= AlertCeiling

\* C34: a session whose termination_reason is face_violation or
\* audio_violation has an alert_count of at least 5, and never a lower or a
\* reset one afterwards.
C34_ViolationReasonAtCeiling ==
    \A i \in DOMAIN interviews :
        interviews[i].termination_reason \in Violations
        => interviews[i].alert_count >= AlertCeiling

\* C35: no answer is recorded for a session after it became terminated or
\* completed, also when the session is terminated while a submit_answer is
\* suspended between its status check and its write.
C35_NoAnswerAfterFinal ==
    [][\A i \in DOMAIN interviews :
          interviews[i].status \in Final => answers'[i] = answers[i]]_vars

\* C36: each issued question is answered at most once: submit_answer never
\* records a second answer for a question_id that already has one, so the
\* answers of a session belong to distinct questions.
C36_OneAnswerPerQuestion ==
    \A i \in DOMAIN interviews : \A q \in QuestionIds : answers[i][q] <= 1

\* C37: a poll without an audio clip is treated as audio_match = true: it
\* never raises an audio_violation, and with a face verdict that is not a
\* violation (bypass and error included) it is a clean poll, which raises no
\* alert and resets a positive alert_count to 0.
C37_NoClipIsMatch ==
    [][\A rq \in BagToSet(req) :
          PollAnswered(rq) /\ resp'.request.audio = "no_clip"
          => /\ "violation_type" \in DOMAIN resp'.body
                => resp'.body.violation_type # "audio_violation"
             /\ interviews'[rq.iid].termination_reason = "audio_violation"
                => interviews[rq.iid].termination_reason = "audio_violation"
             /\ resp'.request.face_reason \notin FaceViolationReasons
                => /\ resp'.body.verified /\ ~resp'.body.alert
                   /\ interviews[rq.iid].alert_count > 0
                      => interviews'[rq.iid].alert_count = 0]_vars

\* The session's status, alert_count, termination_reason and answers, and what
\* else a request could leave behind, are as before the step, and the caller
\* is answered 404.
RefusedAsNotFound ==
    /\ resp'.code = 404
    /\ resp'.body = [detail |-> "Interview not found"]
    /\ UNCHANGED <<interviews, answers, questions, req>>

\* C38: verify_user, terminate_interview, submit_answer, get_question and
\* get_summary called for an existing session by a user who is not its owner
\* answer not-found and leave the session's status, alert_count,
\* termination_reason and answers unchanged.
C38_OwnerIsolation ==
    [][\A i \in DOMAIN interviews : \A u \in Users :
          /\ interviews[i].user_id # u
          /\ \/ verify_user_begin(i, u)
             \/ terminate_interview(i, u)
             \/ get_question_begin(i, u)
             \/ get_summary(i, u)
             \/ \E q \in QuestionIds : submit_answer_begin(i, u, q)
          => RefusedAsNotFound]_vars

\* A user who does not own session 1 has just been refused a submit_answer
\* for its issued question.
C38_Witness ==
    /\ resp.op = "submit_answer" /\ resp.code = 404
    /\ resp.user = "u2"
    /\ 1 \in DOMAIN interviews
    /\ interviews[1].user_id = "u1"
    /\ interviews[1].status = "in_progress"
    /\ questions[1] = 1 /\ answers[1][1] = 0

\* C39: under fair scheduling, with the candidate fetching and answering,
\* every session eventually leaves in_progress; the submit_answer that leaves
\* 10 answers recorded leaves the session completed, and no session is
\* in_progress with 10 or more recorded answers.
C39_EventuallyLeavesInProgress ==
    /\ \A i \in InterviewIds :
          StatusOf(i) = "in_progress" ~> StatusOf(i) # "in_progress"
    /\ [][\A rq \in BagToSet(req) :
            AnswerStored(rq) /\ SumTo(answers'[rq.iid], MaxQuestions) >= 10
            => interviews'[rq.iid].status = "completed"]_vars
    /\ [](\A i \in DOMAIN interviews :
            interviews[i].status = "in_progress"
            => SumTo(answers[i], MaxQuestions) < 10)

\* The tenth submit_answer has returned with no request left in flight: the
\* session is completed with exactly 10 answers.
C39_Witness ==
    /\ 1 \in DOMAIN interviews
    /\ interviews[1].status = "completed"
    /\ SumTo(answers[1], MaxQuestions) = 10
    /\ req = EmptyBag
====
